---- MODULE Spec2Model ----
(***************************************************************************)
(* The four samplers of LLM-Sampling-Techniques.ipynb (GreedySampler,      *)
(* TemperatureSampler, TopKSampler, TopPSampler) as a state machine: a     *)
(* sampler object is constructed, then called on logits tensors.           *)
(*                                                                         *)
(* Numbers.  A logit is a fixed-point number with one fractional bit: the  *)
(* integer x stands for the real x/2, so that logits / temperature is      *)
(* exact for the temperatures used.  exp is taken with base 4 (weight 2^x  *)
(* for the fixed-point x) instead of e: both are positive, strictly        *)
(* increasing and turn differences into ratios, and the properties checked *)
(* depend only on the order of the probabilities and on exact prefix sums. *)
(* A probability vector is kept as integer numerators over one common      *)
(* denominator (their sum).  Floating-point rounding is not modelled.      *)
(* Vocabulary ids and tensor positions are 0-based as in the code;         *)
(* position i of a tensor is element i + 1 of the sequence holding it.     *)
(***************************************************************************)
EXTENDS Integers, Sequences, FiniteSets, TLC

\* Bounds of the model.
MaxLogit == 2
MaxV == 3
MaxB == 2

\* Non-finite floats, ordered as torch orders them when it compares
\* (argmax, topk, sort): -inf < finite < +inf < nan.
PosInf == 2 * MaxLogit + 1
NegInf == 0 - PosInf
NaN == PosInf + 1

\* A probability that is nan.
NaNProb == -1

Finite == {2 * n : n \in 0..MaxLogit}
Vals == Finite \cup {PosInf, NaN}

\* Parameter values handed to the constructors (defaults and test values of
\* the notebook among them; none is validated by the code).
Temps == {-1, 0, 1, 2}
KVals == (-1..(MaxV + 1)) \cup {10}
PVals == {<<-1, 2>>, <<0, 1>>, <<1, 3>>, <<1, 2>>, <<2, 3>>, <<7, 10>>,
          <<3, 4>>, <<1, 1>>, <<3, 2>>}

\* Input tensors: 1-D vectors of length 0..MaxV, and 2-D batches of rows of
\* two-valued logits, one narrower than the widest vector.
Vectors == UNION {[1..V -> Vals] : V \in 0..MaxV}
Batches == UNION {[1..B -> [1..V -> {0, 2 * MaxLogit}]] : B \in 1..MaxB, V \in 1..(MaxV - 1)}
Tensors == {[batched |-> FALSE, rows |-> <<v>>] : v \in Vectors}
           \cup {[batched |-> TRUE, rows |-> b] : b \in Batches}

VARIABLES
    sampler,         \* the constructed sampler: its class and self.temperature / self.k / self.p
    logits,          \* the argument of the last __call__
    outcome,         \* "none" before a call; "returned" or "error" after it
    error,           \* the exception the call raised
    result,          \* the tensor the call returned: its shape and its elements
    draws,           \* torch.multinomial draws the call made from the random stream
    divided,         \* the call evaluated logits / self.temperature
    probs,           \* probs (topk_probs in TopKSampler), one row per logits row
    sorted_indices,  \* TopPSampler: sorted_indices
    cutoff_index,    \* TopPSampler: cutoff_index
    filtered_probs,  \* TopPSampler: filtered_probs after normalisation
    topk_indices,    \* TopKSampler: topk_indices, one row per logits row
    next_token_idx   \* the positions multinomial drew, one per row

vars == <<sampler, logits, outcome, error, result, draws, divided,
          probs, sorted_indices, cutoff_index, filtered_probs,
          topk_indices, next_token_idx>>

--------------------------------------------------------------------------
\* Helpers on sequences.

Ids(row) == 0..(Len(row) - 1)

RECURSIVE SumTo(_, _)
SumTo(s, n) == IF n = 0 THEN 0 ELSE s[n] + SumTo(s, n - 1)

Sum(s) == SumTo(s, Len(s))

RECURSIVE Flatten(_)
Flatten(ss) == IF ss = <<>> THEN <<>> ELSE Head(ss) \o Flatten(Tail(ss))

MaxOf(row) == CHOOSE m \in {row[i] : i \in 1..Len(row)} :
                 \A i \in 1..Len(row) : row[i] <= m

MinFinite(row) == CHOOSE m \in {row[i] : i \in 1..Len(row)} \ {NegInf} :
                    \A i \in 1..Len(row) : row[i] = NegInf \/ m <= row[i]

Injective(s) == \A i, j \in 1..Len(s) : s[i] = s[j] => i = j

\* One choice per row: the sequences f with f[r] \in S[r].
RECURSIVE PerRow(_)
PerRow(S) == IF S = <<>> THEN {<<>>}
             ELSE {<<h>> \o f : h \in Head(S), f \in PerRow(Tail(S))}

--------------------------------------------------------------------------
\* torch primitives.

\* Tensor.argmax over one row: the first maximal value (nan counts as the
\* largest).
ArgMaxLast(row) == CHOOSE i \in Ids(row) :
                     /\ row[i + 1] = MaxOf(row)
                     /\ \A j \in Ids(row) : j > i => row[j + 1] # MaxOf(row)

ArgMax(row) == CHOOSE i \in Ids(row) :
                 /\ row[i + 1] = MaxOf(row)
                 /\ \A j \in Ids(row) : j < i => row[j + 1] # MaxOf(row)

\* x / t in float arithmetic (no exception for t = 0).
Div(x, t) ==
    IF x = NaN THEN NaN
    ELSE IF t = 0 THEN (IF x = 0 THEN NaN ELSE PosInf)
    ELSE IF x = PosInf THEN (IF t > 0 THEN PosInf ELSE NegInf)
    ELSE IF t > 0 THEN x \div t ELSE 0 - (x \div (0 - t))

\* F.softmax(row, dim=-1): numerators of the probabilities, all nan when the
\* row holds nan or +inf or only -inf.
Softmax(row) ==
    IF \/ \E i \in 1..Len(row) : row[i] \in {NaN, PosInf}
       \/ \A i \in 1..Len(row) : row[i] = NegInf
    THEN [i \in 1..Len(row) |-> NaNProb]
    ELSE [i \in 1..Len(row) |->
            IF row[i] = NegInf THEN 0 ELSE 2 ^ (row[i] - MinFinite(row))]

\* torch.multinomial(p, num_samples=1) checks its input before drawing.
MultinomialValid(p) ==
    \A r \in 1..Len(p) :
        /\ Len(p[r]) >= 1
        /\ \A i \in 1..Len(p[r]) : p[r][i] >= 0
        /\ Sum(p[r]) > 0

\* The positions it can return, one per row: those of nonzero probability.
Multinomial(p) == PerRow([r \in 1..Len(p) |-> {i \in Ids(p[r]) : p[r][i + 1] > 0}])

--------------------------------------------------------------------------
\* What a call leaves behind.

NoTensor == [shape |-> <<>>, data |-> <<>>]

Blank == [outcome |-> "none", error |-> "", result |-> NoTensor, draws |-> 0,
          divided |-> FALSE, probs |-> <<>>, sorted_indices |-> <<>>,
          cutoff_index |-> 0, filtered_probs |-> <<>>, topk_indices |-> <<>>,
          next_token_idx |-> <<>>]

Raise(c, e) == [c EXCEPT !.outcome = "error", !.error = e]

Return(c, shape, data) ==
    [c EXCEPT !.outcome = "returned", !.result = [shape |-> shape, data |-> data]]

\* A torch.multinomial call that passed its checks: one draw from the random
\* stream, giving the positions d.
NotDrawn(c, d) == [c EXCEPT !.next_token_idx = d]

Drawn(c, d) == [c EXCEPT !.draws = @ + 1, !.next_token_idx = d]

BatchShape(t) == IF t.batched THEN <<Len(t.rows)>> ELSE <<>>

\* logits.argmax(dim=-1)
ArgMaxDim(t) ==
    IF \E r \in 1..Len(t.rows) : Len(t.rows[r]) = 0
    THEN Raise(Blank, "IndexError")
    ELSE Return(Blank, BatchShape(t), [r \in 1..Len(t.rows) |-> ArgMax(t.rows[r])])

GreedyForward(t) == {ArgMaxDim(t)}

--------------------------------------------------------------------------
\* TemperatureSampler.__call__

\* if self.temperature == 0
NeverZero(temperature) == FALSE

IsZero(temperature) == temperature = 0

TemperatureForward(temperature, t) ==
    IF IsZero(temperature) THEN {ArgMaxDim(t)}
    ELSE LET scaled_logits == [r \in 1..Len(t.rows) |->
                                 [i \in 1..Len(t.rows[r]) |-> Div(t.rows[r][i], temperature)]]
             pr == [r \in 1..Len(t.rows) |-> Softmax(scaled_logits[r])]
             c  == [Blank EXCEPT !.divided = TRUE, !.probs = pr]
         IN  IF ~MultinomialValid(pr) THEN {Raise(c, "RuntimeError")}
             ELSE {Return(Drawn(c, d), BatchShape(t), d) :
                     d \in Multinomial(pr)}

--------------------------------------------------------------------------
\* TopKSampler.__call__

\* torch.topk(row, k), 0 <= k <= len(row): the positions of k largest values,
\* largest first; which of several equal values comes first is not fixed.
TopK(row, k) ==
    {s \in [1..k -> Ids(row)] :
        /\ Injective(s)
        /\ \A i, j \in 1..k : i < j => row[s[i] + 1] >= row[s[j] + 1]
        /\ \A i \in 1..k : \A o \in Ids(row) \ {s[j] : j \in 1..k} :
               row[o + 1] <= row[s[i] + 1]}

\* indices[pos] for a 1-D tensor and one position.
Position(indices, pos) == pos

IndexSelect(indices, pos) == indices[pos + 1]

\* topk_indices[next_token_idx]: indexes the first dimension of topk_indices.
TopKIndex(c, t, k, ind, d) ==
    IF ~t.batched THEN Return(c, <<1>>, <<IndexSelect(ind[1], d[1])>>)
    ELSE IF \E r \in 1..Len(d) : d[r] >= Len(ind) THEN Raise(c, "IndexError")
    ELSE Return(c, <<Len(ind), 1, k>>, Flatten([r \in 1..Len(d) |-> ind[d[r] + 1]]))

TopKDraw(t, k, ind) ==
    LET topk_logits == [r \in 1..Len(ind) |-> [j \in 1..k |-> t.rows[r][ind[r][j] + 1]]]
        topk_probs  == [r \in 1..Len(ind) |-> Softmax(topk_logits[r])]
        c == [Blank EXCEPT !.topk_indices = ind, !.probs = topk_probs]
    IN  IF ~MultinomialValid(topk_probs) THEN {Raise(c, "RuntimeError")}
        ELSE {TopKIndex(Drawn(c, d), t, k, ind, d) :
                d \in Multinomial(topk_probs)}

TopKForward(k, t) ==
    IF k < 0 \/ k > Len(t.rows[1]) THEN {Raise(Blank, "RuntimeError")}
    ELSE UNION {TopKDraw(t, k, ind) :
                  ind \in PerRow([r \in 1..Len(t.rows) |-> TopK(t.rows[r], k)])}

--------------------------------------------------------------------------
\* TopPSampler.__call__

\* torch.sort(probs, descending=True): the order of equal values is not fixed.
Sort(w) == {s \in [1..Len(w) -> Ids(w)] :
              /\ Injective(s)
              /\ \A i, j \in 1..Len(w) : i < j => w[s[i] + 1] >= w[s[j] + 1]}

CumSum(s) == [i \in 1..Len(s) |-> SumTo(s, i)]

\* torch.searchsorted(cum, p) (right=False) for the nondecreasing numerators
\* cum over denom and p = p[1] / p[2]: the first position whose value is
\* >= p, Len(cum) when there is none.
SearchSortedRight(cum, denom, p) ==
    Cardinality({j \in 1..Len(cum) : cum[j] * p[2] <= p[1] * denom})

SearchSorted(cum, denom, p) ==
    Cardinality({j \in 1..Len(cum) : cum[j] * p[2] < p[1] * denom})

\* filtered_probs[cutoff_index + 1:] = 0
MaskFrom(sorted_probs, cutoff) ==
    [j \in 1..Len(sorted_probs) |-> IF j - 1 >= cutoff THEN 0 ELSE sorted_probs[j]]

Mask(sorted_probs, cutoff) ==
    [j \in 1..Len(sorted_probs) |-> IF j - 1 >= cutoff + 1 THEN 0 ELSE sorted_probs[j]]

\* filtered_probs / filtered_probs.sum(): the numerators stay, over the new
\* denominator; 0 / 0 is nan.
Normalize(f) == IF Sum(f) = 0 THEN [j \in 1..Len(f) |-> NaNProb] ELSE f

TopPDraw(p, w, si) ==
    LET sorted_probs == [j \in 1..Len(w) |-> w[si[j] + 1]]
        cumulative_probs == CumSum(sorted_probs)
        cutoff == SearchSorted(cumulative_probs, Sum(w), p)
        filtered == Normalize(Mask(sorted_probs, cutoff))
        c == [Blank EXCEPT !.probs = <<w>>, !.sorted_indices = si,
                           !.cutoff_index = cutoff, !.filtered_probs = filtered]
    IN  IF ~MultinomialValid(<<filtered>>) THEN {Raise(c, "RuntimeError")}
        ELSE {Return(Drawn(c, d), <<1>>,
                     <<IndexSelect(si, d[1])>>) : d \in Multinomial(<<filtered>>)}

TopPForward(p, t) ==
    LET pr == [r \in 1..Len(t.rows) |-> Softmax(t.rows[r])]
    IN  IF t.batched
        THEN \* searchsorted takes a scalar only with a 1-D sorted sequence
             {Raise([Blank EXCEPT !.probs = pr], "RuntimeError")}
        ELSE IF \E i \in 1..Len(pr[1]) : pr[1][i] = NaNProb
        THEN \* nan runs through sort, cumsum and the mask into multinomial
             {Raise([Blank EXCEPT !.probs = pr], "RuntimeError")}
        ELSE UNION {TopPDraw(p, pr[1], si) : si \in Sort(pr[1])}

--------------------------------------------------------------------------
\* The state machine.

NoInput == [batched |-> FALSE, rows |-> <<<<>>>>]

Assign(c) ==
    /\ outcome' = c.outcome
    /\ error' = c.error
    /\ result' = c.result
    /\ draws' = c.draws
    /\ divided' = c.divided
    /\ probs' = c.probs
    /\ sorted_indices' = c.sorted_indices
    /\ cutoff_index' = c.cutoff_index
    /\ filtered_probs' = c.filtered_probs
    /\ topk_indices' = c.topk_indices
    /\ next_token_idx' = c.next_token_idx

Init ==
    /\ sampler = [kind |-> "None"]
    /\ logits = NoInput
    /\ outcome = "none"
    /\ error = ""
    /\ result = NoTensor
    /\ draws = 0
    /\ divided = FALSE
    /\ probs = <<>>
    /\ sorted_indices = <<>>
    /\ cutoff_index = 0
    /\ filtered_probs = <<>>
    /\ topk_indices = <<>>
    /\ next_token_idx = <<>>

\* The constructors store their argument; none of them checks it.  A sampler
\* keeps no state between calls, so a call is taken from the state its
\* constructor leaves, as in the notebook's test cells (construct, call once).
GreedySamplerInit ==
    /\ sampler' = [kind |-> "Greedy"]
    /\ logits' = NoInput
    /\ Assign(Blank)

TemperatureSamplerInit ==
    \E temperature \in Temps :
        /\ sampler' = [kind |-> "Temperature", temperature |-> temperature]
        /\ logits' = NoInput
        /\ Assign(Blank)

TopKSamplerInit ==
    \E k \in KVals :
        /\ sampler' = [kind |-> "TopK", k |-> k]
        /\ logits' = NoInput
        /\ Assign(Blank)

TopPSamplerInit ==
    \E p \in PVals :
        /\ sampler' = [kind |-> "TopP", p |-> p]
        /\ logits' = NoInput
        /\ Assign(Blank)

GreedySamplerCall ==
    /\ sampler.kind = "Greedy"
    /\ outcome = "none"
    /\ \E t \in Tensors : \E c \in GreedyForward(t) :
        /\ logits' = t
        /\ Assign(c)
    /\ UNCHANGED sampler

TemperatureSamplerCall ==
    /\ sampler.kind = "Temperature"
    /\ outcome = "none"
    /\ \E t \in Tensors : \E c \in TemperatureForward(sampler.temperature, t) :
        /\ logits' = t
        /\ Assign(c)
    /\ UNCHANGED sampler

TopKSamplerCall ==
    /\ sampler.kind = "TopK"
    /\ outcome = "none"
    /\ \E t \in Tensors : \E c \in TopKForward(sampler.k, t) :
        /\ logits' = t
        /\ Assign(c)
    /\ UNCHANGED sampler

TopPSamplerCall ==
    /\ sampler.kind = "TopP"
    /\ outcome = "none"
    /\ \E t \in Tensors : \E c \in TopPForward(sampler.p, t) :
        /\ logits' = t
        /\ Assign(c)
    /\ UNCHANGED sampler

Next ==
    \/ GreedySamplerInit
    \/ TemperatureSamplerInit
    \/ TopKSamplerInit
    \/ TopPSamplerInit
    \/ GreedySamplerCall
    \/ TemperatureSamplerCall
    \/ TopKSamplerCall
    \/ TopPSamplerCall

Spec == Init /\ [][Next]_vars

--------------------------------------------------------------------------
\* Vocabulary of the properties.

Called(kind) == sampler.kind = kind /\ outcome # "none"

Row == logits.rows[1]

V == Len(Row)

OnVector == outcome # "none" /\ ~logits.batched

FiniteRow == \A i \in 1..V : Row[i] \in Finite

\* The configurations the design allows: temperature >= 0, k >= 1, 0 < p <= 1.
ValidConfig ==
    /\ sampler.kind = "Temperature" => sampler.temperature >= 0
    /\ sampler.kind = "TopK" => sampler.k >= 1
    /\ sampler.kind = "TopP" =>
          /\ sampler.p[1] > 0
          /\ sampler.p[1] <= sampler.p[2]

\* Probability mass of the first m positions of the descending order, as a
\* numerator over Sum(probs[1]).
PrefixMass(m) == SumTo([j \in 1..V |-> probs[1][sorted_indices[j] + 1]], m)

Reaches(m) == PrefixMass(m) * sampler.p[2] >= sampler.p[1] * Sum(probs[1])

\* The ids multinomial can return in a TopP call.
Candidates == {sorted_indices[j] : j \in {i \in 1..Len(filtered_probs) : filtered_probs[i] > 0}}

--------------------------------------------------------------------------
\* C1: GreedySampler on a vector of length V >= 1 (no nan) returns the lowest
\* index among the indices whose logit equals the maximum logit.
GreedyLowestMax ==
    (Called("Greedy") /\ ~logits.batched /\ V >= 1 /\ \A i \in 1..V : Row[i] # NaN) =>
        /\ outcome = "returned"
        /\ result.shape = <<>>
        /\ result.data[1] \in Ids(Row)
        /\ \A j \in Ids(Row) :
              /\ Row[j + 1] <= Row[result.data[1] + 1]
              /\ j < result.data[1] => Row[j + 1] < Row[result.data[1] + 1]

\* A tie for the maximum that does not start at index 0.
GreedyTieWitness ==
    /\ Called("Greedy") /\ outcome = "returned" /\ ~logits.batched /\ FiniteRow
    /\ result.data[1] > 0
    /\ \E j \in Ids(Row) : j > result.data[1] /\ Row[j + 1] = Row[result.data[1] + 1]

TopKWithinLargest ==
    (Called("TopK") /\ outcome = "returned" /\ ~logits.batched
       /\ sampler.k >= 1 /\ sampler.k <= V) =>
        /\ result.data[1] \in Ids(Row)
        /\ Cardinality({j \in Ids(Row) : Row[j + 1] > Row[result.data[1] + 1]}) < sampler.k
        /\ Cardinality({topk_indices[1][j] : j \in 1..sampler.k}) = sampler.k
        /\ next_token_idx[1] \in 0..(sampler.k - 1)
        /\ result.data[1] = topk_indices[1][next_token_idx[1] + 1]

\* The second of the top 2 of 3 distinct logits is drawn, and its id is not
\* its position in the top-k.
TopKMapBackWitness ==
    /\ Called("TopK") /\ outcome = "returned" /\ ~logits.batched
    /\ sampler.k = 2 /\ V = 3 /\ Cardinality({Row[i] : i \in 1..V}) = 3
    /\ next_token_idx = <<1>>
    /\ result.data[1] # 1

\* C4: a TopKSampler call with k > V on a finite vector of length V >= 1 does
\* not end in an error and draws from all V ids.
TopKClampsK ==
    (Called("TopK") /\ ~logits.batched /\ V >= 1 /\ FiniteRow /\ sampler.k > V) =>
        /\ outcome = "returned"
        /\ {topk_indices[1][j] : j \in 1..Len(topk_indices[1])} = Ids(Row)

\* C5: a TemperatureSampler with temperature = 0 ends exactly as GreedySampler
\* does on the same logits, and has not divided by the temperature.
TemperatureZeroIsGreedy ==
    (Called("Temperature") /\ sampler.temperature = 0) =>
        /\ ~divided
        /\ \E g \in GreedyForward(logits) :
              /\ outcome = g.outcome
              /\ error = g.error
              /\ result = g.result

\* temperature = 0 on a vector whose maximum is tied and not at index 0.
TemperatureZeroWitness ==
    /\ Called("Temperature") /\ sampler.temperature = 0
    /\ outcome = "returned" /\ ~logits.batched /\ FiniteRow
    /\ result.data[1] > 0
    /\ \E j \in Ids(Row) : j > result.data[1] /\ Row[j + 1] = Row[result.data[1] + 1]

\* C6 as stated, for the calls that return an index: with a valid parameter,
\* a call on a vector consumes no draw for GreedySampler and exactly one for
\* each of TemperatureSampler, TopKSampler and TopPSampler.
OneDrawUnlessGreedy ==
    (OnVector /\ outcome = "returned" /\ ValidConfig) =>
        draws = IF sampler.kind = "Greedy" THEN 0 ELSE 1

\* C6 amended: a call on a vector consumes no draw when the sampler is a
\* GreedySampler or a TemperatureSampler with temperature = 0 or when the call
\* ends in an error, and exactly one draw when a TemperatureSampler with
\* temperature # 0, a TopKSampler or a TopPSampler returns an index.
DrawsPerCall ==
    OnVector =>
        draws = IF /\ outcome = "returned"
                   /\ \/ sampler.kind \in {"TopK", "TopP"}
                      \/ sampler.kind = "Temperature" /\ sampler.temperature # 0
                THEN 1 ELSE 0

\* temperature = 0 returns an index and has consumed nothing.
ZeroTemperatureNoDrawWitness ==
    /\ Called("Temperature") /\ sampler.temperature = 0
    /\ OnVector /\ outcome = "returned" /\ V >= 2
    /\ draws = 0

\* C7: no sampler with temperature < 0, k < 1 or p outside (0, 1] exists.
NoInvalidSampler == ValidConfig

\* C8: a call on an empty vector, or on logits holding nan or inf, ends in an
\* error and returns no index (the class of the error is not compared).
InvalidInputRejected ==
    (OnVector /\ (V = 0 \/ ~FiniteRow)) => outcome = "error"

\* C9: a batched call on B rows of width V, by a sampler with a valid
\* parameter (k <= V for TopKSampler), returns exactly B indices, the r-th one
\* an index of the r-th row.
BatchedOnePerRow ==
    (outcome # "none" /\ logits.batched /\ ValidConfig
       /\ (sampler.kind = "TopK" => sampler.k <= V)) =>
        /\ outcome = "returned"
        /\ Len(result.data) = Len(logits.rows)
        /\ \A r \in 1..Len(result.data) : result.data[r] \in Ids(logits.rows[r])

\* C10: in a TopPSampler call on a finite vector of length V >= 1 the first
\* sorted position keeps nonzero mass after the mask, and when no cumulative
\* sum reaches p all V positions do, the final token included.
TopPNeverEmpty ==
    (Called("TopP") /\ ~logits.batched /\ V >= 1 /\ FiniteRow) =>
        /\ outcome = "returned"
        /\ Len(filtered_probs) = V
        /\ filtered_probs[1] > 0
        /\ Candidates # {}
        /\ (\A m \in 1..V : ~Reaches(m)) =>
              /\ \A j \in 1..V : filtered_probs[j] > 0
              /\ Candidates = Ids(Row)

\* No cumulative sum reaches p, and the final token of the order is drawn.
TopPFinalTokenWitness ==
    /\ Called("TopP") /\ outcome = "returned" /\ ~logits.batched /\ V >= 2
    /\ \A m \in 1..V : ~Reaches(m)
    /\ cutoff_index = V
    /\ result.data = <<sorted_indices[V]>>

====
